---- MODULE Spec2Model ----
(***************************************************************************)
(* vpc-nag: audit of the VPC inventory of one account (src/main.go).       *)
(*                                                                         *)
(* main is one sequential pipeline: flag -> HTTP GET -> ReadAll ->         *)
(* json.Unmarshal -> Filter by account -> checkCompliance/reportCompliance *)
(* per VPC -> Filter by region -> "ignored" report.  Each variable is a    *)
(* local of main (or a process-level stream), pc is main's position.       *)
(***************************************************************************)
EXTENDS Integers, Sequences, FiniteSets, TLC

VARIABLES
    pc,             \* position in main, or "fatal"/"done" once the process ended
    accountID,      \* *accountID, the value of the -accountID flag
    resp,           \* resp.Body as served by the remote
    data,           \* the bytes io.ReadAll returned
    vpcs,           \* prismResponse.Data.VPCs
    accountVPCs,    \* accountVPCs
    i,              \* index of the range loop over accountVPCs (1-based)
    vpc,            \* argument of the last checkCompliance call
    complianceErrs, \* result of the last checkCompliance call
    nonEuWest1,     \* nonEuWest1
    stdout,         \* lines written to standard output, in order
    stderr,         \* lines written by log.Fatalf
    exitStatus      \* <<>> while the process runs, then <<its exit status>>

vars == <<pc, accountID, resp, data, vpcs, accountVPCs, i, vpc,
          complianceErrs, nonEuWest1, stdout, stderr, exitStatus>>

-----------------------------------------------------------------------------
(* Bounds of the model *)

\* longest VPC list an inventory document carries
MaxVPCs == 2
\* longest subnet list of a VPC given to checkCompliance
MaxSubnets == 7

-----------------------------------------------------------------------------
(* Literals of the program *)

CanonicalRegion == "eu-west-1"
ExpectedPublic == 3
ExpectedPrivate == 3
FatalStatus == 1

MissingArgWarning == "Missing required argument: accountID"
IgnoredHeader == "The following VPCs were ignored as are in non-standard regions:"
DefaultVPCMsg == "is Default VPC"

\* %d of fmt: decimal digits, most significant first
Digits == <<"0", "1", "2", "3", "4", "5", "6", "7", "8", "9">>

RECURSIVE FmtInt(_)
FmtInt(n) ==
    IF n < 10 THEN Digits[n + 1]
    ELSE FmtInt(n \div 10) \o Digits[(n % 10) + 1]

-----------------------------------------------------------------------------
(* Types: zero values and JSON decoding (missing keys keep the zero value) *)

ZeroVPC ==
    [VPCID |-> "", AccountID |-> "", IsDefault |-> FALSE, Subnets |-> <<>>,
     Meta |-> [Origin |-> [Region |-> ""]]]

Field(obj, key, zero) == IF key \in DOMAIN obj THEN obj[key] ELSE zero

DecodeSubnet(w) ==
    [SubnetID |-> Field(w, "subnetId", ""), IsPublic |-> Field(w, "isPublic", FALSE)]

DecodeVPC(w) ==
    [VPCID     |-> Field(w, "vpcId", ""),
     AccountID |-> Field(w, "accountId", ""),
     IsDefault |-> Field(w, "default", FALSE),
     Subnets   |-> LET ws == Field(w, "subnets", <<>>)
                   IN  [k \in 1..Len(ws) |-> DecodeSubnet(ws[k])],
     Meta      |-> [Origin |-> [Region |->
                      Field(Field(Field(w, "meta", <<>>), "origin", <<>>), "region", "")]]]

\* json.Unmarshal(data, &prismResponse), for a body that is a JSON document
Unmarshal(doc) ==
    LET ws == Field(Field(doc, "data", <<>>), "vpcs", <<>>)
    IN  [k \in 1..Len(ws) |-> DecodeVPC(ws[k])]

-----------------------------------------------------------------------------
(* Filter *)

\* faulty variant: the kept item is put in front
FilterPrepend(out, item, keep) == IF keep THEN <<item>> \o out ELSE out

\* one iteration of Filter's loop: if pred(item) { out = append(out, item) }
FilterAppend(out, item, keep) == IF keep THEN Append(out, item) ELSE out

\* out after the loop has visited items[1..k], for k = Len(items);
\* pred is the predicate as a function on the items
Filter(items, pred) ==
    LET F[k \in 0..Len(items)] ==
            IF k = 0 THEN <<>>
            ELSE FilterAppend(F[k - 1], items[k], pred[items[k]])
    IN  F[Len(items)]

\* a func(A) bool of the program, over the items it is applied to
Range(items) == {items[k] : k \in DOMAIN items}

\* the closures main and checkCompliance pass to Filter
AccountPred(v, id) == v.AccountID = id
\* faulty variant: the comparison is inverted
NonEuWest1PredInverted(v) == v.Meta.Origin.Region = CanonicalRegion
NonEuWest1Pred(v) == v.Meta.Origin.Region # CanonicalRegion
PublicPred(subnet) == subnet.IsPublic
PrivatePred(subnet) == ~subnet.IsPublic

-----------------------------------------------------------------------------
(* checkCompliance *)

PublicCountErr(n) == "expected 3 public subnets, found " \o FmtInt(n)
PrivateCountErr(n) == "expected 3 private subnets, found " \o FmtInt(n)

\* publicSubnets and privateSubnets of checkCompliance
publicSubnets(v) ==
    Filter(v.Subnets, [subnet \in Range(v.Subnets) |-> PublicPred(subnet)])
privateSubnets(v) ==
    Filter(v.Subnets, [subnet \in Range(v.Subnets) |-> PrivatePred(subnet)])

\* faulty variant: the private check is skipped once the public check has failed
SubnetCountErrsShortCircuit(pubs, privs) ==
    IF Len(pubs) # ExpectedPublic
    THEN <<PublicCountErr(Len(pubs))>>
    ELSE IF Len(privs) # ExpectedPrivate
    THEN <<PrivateCountErr(Len(privs))>>
    ELSE <<>>

SubnetCountErrs(pubs, privs) ==
    (IF Len(pubs) # ExpectedPublic
        THEN <<PublicCountErr(Len(pubs))>> ELSE <<>>)
    \o
    (IF Len(privs) # ExpectedPrivate
        THEN <<PrivateCountErr(Len(privs))>> ELSE <<>>)

\* faulty variant: the region test is missing
checkComplianceAnyRegion(v) ==
    IF v.IsDefault THEN <<DefaultVPCMsg>>
    ELSE SubnetCountErrs(publicSubnets(v), privateSubnets(v))

\* faulty variant: no early return after the default-VPC violation
checkComplianceNoReturn(v) ==
    IF v.Meta.Origin.Region # CanonicalRegion THEN <<>>
    ELSE (IF v.IsDefault THEN <<DefaultVPCMsg>> ELSE <<>>)
         \o SubnetCountErrs(publicSubnets(v), privateSubnets(v))

checkCompliance(v) ==
    IF v.Meta.Origin.Region # CanonicalRegion THEN <<>>
    ELSE IF v.IsDefault THEN <<DefaultVPCMsg>>
    ELSE SubnetCountErrs(publicSubnets(v), privateSubnets(v))

-----------------------------------------------------------------------------
(* Output *)

Line(kind, id, text) == [kind |-> kind, vpcId |-> id, text |-> text]

\* the lines reportCompliance prints for one VPC
reportCompliance(v, errs) ==
    <<Line("failed", v.VPCID,
           "Failed: " \o v.VPCID \o " (" \o v.Meta.Origin.Region \o ")")>>
    \o [k \in 1..Len(errs) |-> Line("reason", v.VPCID, "\t" \o errs[k])]
    \o <<Line("blank", v.VPCID, "")>>

\* the lines of the "ignored" report
IgnoredReport(ignored) ==
    IF Len(ignored) > 0
    THEN <<Line("ignoredHeader", "", IgnoredHeader)>>
         \o [k \in 1..Len(ignored) |->
               Line("ignored", ignored[k].VPCID,
                    "\t" \o ignored[k].VPCID \o " ("
                         \o ignored[k].Meta.Origin.Region \o ")")]
    ELSE <<>>

-----------------------------------------------------------------------------
(* Inputs: the flag value and what the remote serves *)

\* values of the -accountID flag; "" is the default when the flag is omitted
AccountIDFlags == {"", "111"}

VpcIdAt(k) == "vpc-" \o FmtInt(k)

WireSubnet(k, public) == [subnetId |-> "subnet-" \o FmtInt(k), isPublic |-> public]

\* 3 public + 3 private subnets, interleaved
WireSubnets33 == [k \in 1..6 |-> WireSubnet(k, k % 2 = 1)]
\* 4 public + 2 private subnets
WireSubnets42 == [k \in 1..6 |-> WireSubnet(k, k <= 4)]

\* a JSON object may omit any key
WireCores ==
    { [default |-> TRUE],
      [subnets |-> WireSubnets33],
      [default |-> FALSE, subnets |-> WireSubnets42] }
\* an entry of account "111", or one that carries no account id
WireAccounts == { <<>>, [accountId |-> "111"] }
WireRegions ==
    { <<>>, [meta |-> [origin |-> [region |-> "eu-west-1"]]],
            [meta |-> [origin |-> [region |-> "us-east-1"]]] }

WireVPCAttrs == { c @@ a @@ r : c \in WireCores, a \in WireAccounts, r \in WireRegions }

WireVPCSeqs ==
    UNION { { [k \in 1..n |-> [vpcId |-> VpcIdAt(k)] @@ f[k]] :
                f \in [1..n -> WireVPCAttrs] } : n \in 0..MaxVPCs }

\* response bodies: JSON documents of the inventory shape, "{}", or not JSON
Responses ==
    { [kind |-> "json", doc |-> [data |-> [vpcs |-> s]]] : s \in WireVPCSeqs }
    \cup { [kind |-> "json", doc |-> <<>>], [kind |-> "malformed"] }

NoBody == [kind |-> "none"]

\* error values; "nil" is Go's nil error
TransportErrs == {"nil", "dial tcp: connection refused"}
ReadErrs == {"nil", "unexpected EOF"}
UnmarshalErr(body) ==
    IF body.kind = "json" THEN "nil" ELSE "invalid character 'o' in literal null"

-----------------------------------------------------------------------------
(* main *)

Init ==
    /\ pc = "flag"
    /\ accountID \in AccountIDFlags
    /\ resp = NoBody
    /\ data = NoBody
    /\ vpcs = <<>>
    /\ accountVPCs = <<>>
    /\ i = 1
    /\ vpc = ZeroVPC
    /\ complianceErrs = <<>>
    /\ nonEuWest1 = <<>>
    /\ stdout = <<>>
    /\ stderr = <<>>
    /\ exitStatus = <<>>

\* faulty variant: the error is logged and main carries on
checkLogOnly(err, msg, next) ==
    /\ stderr' = IF err # "nil" THEN Append(stderr, msg \o ": " \o err) ELSE stderr
    /\ pc' = next
    /\ UNCHANGED exitStatus

\* check(err, msg): log.Fatalf ends the process with status 1 when err is not nil
check(err, msg, next) ==
    IF err # "nil"
    THEN /\ stderr' = Append(stderr, msg \o ": " \o err)
         /\ exitStatus' = <<FatalStatus>>
         /\ pc' = "fatal"
    ELSE /\ pc' = next
         /\ UNCHANGED <<stderr, exitStatus>>

\* faulty variant: the test of the flag is inverted
WarnLinesInverted(id) == IF id # "" THEN <<Line("warning", "", MissingArgWarning)>> ELSE <<>>

\* the warning main prints when the flag is empty
WarnLines(id) == IF id = "" THEN <<Line("warning", "", MissingArgWarning)>> ELSE <<>>

ParseFlag ==
    /\ pc = "flag"
    /\ stdout' = stdout \o WarnLines(accountID)
    /\ pc' = "get"
    /\ UNCHANGED <<accountID, resp, data, vpcs, accountVPCs, i, vpc,
                   complianceErrs, nonEuWest1, stderr, exitStatus>>

HttpGet ==
    /\ pc = "get"
    /\ \E err \in TransportErrs :
          /\ check(err, "GET from PRISM failed", "read")
          /\ IF err = "nil" THEN resp' \in Responses ELSE resp' = resp
    /\ UNCHANGED <<accountID, data, vpcs, accountVPCs, i, vpc,
                   complianceErrs, nonEuWest1, stdout>>

ReadAll ==
    /\ pc = "read"
    /\ \E err \in ReadErrs :
          /\ check(err, "unable to read prism response body", "unmarshal")
          /\ data' = IF err = "nil" THEN resp ELSE data
    /\ UNCHANGED <<accountID, resp, vpcs, accountVPCs, i, vpc,
                   complianceErrs, nonEuWest1, stdout>>

JsonUnmarshal ==
    /\ pc = "unmarshal"
    /\ check(UnmarshalErr(data), "unable to unmarshal", "filter")
    /\ vpcs' = IF UnmarshalErr(data) = "nil" THEN Unmarshal(data.doc) ELSE vpcs
    /\ UNCHANGED <<accountID, resp, data, accountVPCs, i, vpc,
                   complianceErrs, nonEuWest1, stdout>>

FilterAccount ==
    /\ pc = "filter"
    /\ accountVPCs' = Filter(vpcs, [v \in Range(vpcs) |-> AccountPred(v, accountID)])
    /\ i' = 1
    /\ pc' = "range"
    /\ UNCHANGED <<accountID, resp, data, vpcs, vpc, complianceErrs,
                   nonEuWest1, stdout, stderr, exitStatus>>

\* faulty variant: the report is printed whether or not there are violations
RangePrintAlways(v, errs) == reportCompliance(v, errs)

\* what one iteration of the range loop prints for v
RangePrint(v, errs) == IF Len(errs) > 0 THEN reportCompliance(v, errs) ELSE <<>>

RangeBody ==
    /\ pc = "range"
    /\ i <= Len(accountVPCs)
    /\ LET v == accountVPCs[i] IN
         IF v.AccountID # accountID
         THEN UNCHANGED <<vpc, complianceErrs, stdout>>
         ELSE /\ vpc' = v
              /\ complianceErrs' = checkCompliance(v)
              /\ stdout' = stdout \o RangePrint(v, checkCompliance(v))
    /\ i' = i + 1
    /\ UNCHANGED <<pc, accountID, resp, data, vpcs, accountVPCs,
                   nonEuWest1, stderr, exitStatus>>

FilterRegion ==
    /\ pc = "range"
    /\ i > Len(accountVPCs)
    /\ nonEuWest1' = Filter(accountVPCs, [v \in Range(accountVPCs) |-> NonEuWest1Pred(v)])
    /\ pc' = "ignored"
    /\ UNCHANGED <<accountID, resp, data, vpcs, accountVPCs, i, vpc,
                   complianceErrs, stdout, stderr, exitStatus>>

\* faulty variant: the process exits 1 when a Failed block was printed
ReportIgnoredExitOnFailed ==
    /\ pc = "ignored"
    /\ stdout' = stdout \o IgnoredReport(nonEuWest1)
    /\ pc' = "done"
    /\ exitStatus' = IF \E k \in DOMAIN stdout : stdout[k].kind = "failed"
                     THEN <<FatalStatus>> ELSE <<0>>
    /\ UNCHANGED <<accountID, resp, data, vpcs, accountVPCs, i, vpc,
                   complianceErrs, nonEuWest1, stderr>>

ReportIgnored ==
    /\ pc = "ignored"
    /\ stdout' = stdout \o IgnoredReport(nonEuWest1)
    /\ pc' = "done"
    /\ exitStatus' = <<0>>
    /\ UNCHANGED <<accountID, resp, data, vpcs, accountVPCs, i, vpc,
                   complianceErrs, nonEuWest1, stderr>>

Next ==
    \/ ParseFlag
    \/ HttpGet
    \/ ReadAll
    \/ JsonUnmarshal
    \/ FilterAccount
    \/ RangeBody
    \/ FilterRegion
    \/ ReportIgnored

Spec == Init /\ [][Next]_vars

\* main is the only goroutine: it keeps running until it returns or exits
FairSpec == Spec /\ WF_vars(Next)

-----------------------------------------------------------------------------
(* checkCompliance and Filter on their own, over bounded inputs *)

\* longest VPC list given to Filter on its own
MaxItems == 4

BoolSeqs(n) == UNION { [1..m -> BOOLEAN] : m \in 0..n }

SubnetsOf(flags) ==
    [k \in 1..Len(flags) |-> [SubnetID |-> "subnet-" \o FmtInt(k), IsPublic |-> flags[k]]]

EvalRegions == {"eu-west-1", "us-east-1", "", "EU-WEST-1", "eu-west-1 "}

EvalVPCs ==
    { [VPCID |-> "vpc-1", AccountID |-> "111", IsDefault |-> d,
       Subnets |-> SubnetsOf(flags), Meta |-> [Origin |-> [Region |-> r]]] :
         d \in BOOLEAN, flags \in BoolSeqs(MaxSubnets), r \in EvalRegions }

FilterAccounts == {"", "111", "222"}

FilterInputs ==
    UNION { { [k \in 1..n |-> [ZeroVPC EXCEPT !.VPCID = VpcIdAt(k), !.AccountID = f[k]]] :
                f \in [1..n -> FilterAccounts] } : n \in 0..MaxItems }

InitPure ==
    /\ resp = NoBody
    /\ data = NoBody
    /\ i = 1
    /\ complianceErrs = <<>>
    /\ accountVPCs = <<>>
    /\ nonEuWest1 = <<>>
    /\ stdout = <<>>
    /\ stderr = <<>>
    /\ exitStatus = <<>>
    /\ \/ /\ pc = "check_input"
          /\ vpc \in EvalVPCs
          /\ vpcs = <<>>
          /\ accountID = ""
       \/ /\ pc = "filter_input"
          /\ vpcs \in FilterInputs
          /\ accountID \in FilterAccounts
          /\ vpc = ZeroVPC

ApplyCheckCompliance ==
    /\ pc = "check_input"
    /\ complianceErrs' = checkCompliance(vpc)
    /\ pc' = "checked"
    /\ UNCHANGED <<accountID, resp, data, vpcs, accountVPCs, i, vpc,
                   nonEuWest1, stdout, stderr, exitStatus>>

ApplyFilter ==
    /\ pc = "filter_input"
    /\ accountVPCs' = Filter(vpcs, [v \in Range(vpcs) |-> AccountPred(v, accountID)])
    /\ pc' = "filtered"
    /\ UNCHANGED <<accountID, resp, data, vpcs, i, vpc, complianceErrs,
                   nonEuWest1, stdout, stderr, exitStatus>>

\* the same filter applied to its own result
ApplyFilterAgain ==
    /\ pc = "filtered"
    /\ vpcs' = accountVPCs
    /\ accountVPCs' = Filter(accountVPCs,
                             [v \in Range(accountVPCs) |-> AccountPred(v, accountID)])
    /\ pc' = "refiltered"
    /\ UNCHANGED <<accountID, resp, data, i, vpc, complianceErrs,
                   nonEuWest1, stdout, stderr, exitStatus>>

NextPure ==
    \/ ApplyCheckCompliance
    \/ ApplyFilter
    \/ ApplyFilterAgain

PureSpec == InitPure /\ [][NextPure]_vars

-----------------------------------------------------------------------------
(* Properties of checkCompliance and Filter (checked under PureSpec) *)

\* subnet counts taken directly from the flags, not through Filter
PublicCount(v) == Cardinality({k \in DOMAIN v.Subnets : v.Subnets[k].IsPublic})
PrivateCount(v) == Cardinality({k \in DOMAIN v.Subnets : ~v.Subnets[k].IsPublic})

\* decimal text of the counts the model can reach
CountText(n) ==
    <<"0", "1", "2", "3", "4", "5", "6", "7", "8", "9", "10", "11", "12">>[n + 1]

Checked == pc = "checked"
InRegion(v) == v.Meta.Origin.Region = "eu-west-1"

\* C1: for a VPC in eu-west-1 that is not the default VPC, checkCompliance
\* returns one violation per subnet count (public, private) that is not 3:
\* none iff both counts are 3, the public violation before the private one,
\* and each violation carries the count that was found.
C1_SubnetCountViolations ==
    (Checked /\ InRegion(vpc) /\ ~vpc.IsDefault) =>
        LET pub  == PublicCount(vpc)
            priv == PrivateCount(vpc)
            pubErrs  == IF pub # 3
                        THEN <<"expected 3 public subnets, found " \o CountText(pub)>>
                        ELSE <<>>
            privErrs == IF priv # 3
                        THEN <<"expected 3 private subnets, found " \o CountText(priv)>>
                        ELSE <<>>
        IN  /\ Len(complianceErrs) = (IF pub # 3 THEN 1 ELSE 0) + (IF priv # 3 THEN 1 ELSE 0)
            /\ (complianceErrs = <<>>) <=> (pub = 3 /\ priv = 3)
            /\ complianceErrs = pubErrs \o privErrs

C1_Witness ==
    /\ Checked /\ InRegion(vpc) /\ ~vpc.IsDefault
    /\ PublicCount(vpc) = 4 /\ PrivateCount(vpc) = 2
    /\ complianceErrs = <<"expected 3 public subnets, found 4",
                          "expected 3 private subnets, found 2">>

\* C2: for a VPC whose region is not exactly "eu-west-1" (the empty region
\* included), checkCompliance returns no violation, whatever its default
\* flag and subnets.
C2_OutOfRegionIsEmpty ==
    (Checked /\ vpc.Meta.Origin.Region # "eu-west-1") => complianceErrs = <<>>

C2_Witness ==
    /\ Checked /\ vpc.Meta.Origin.Region = ""
    /\ vpc.IsDefault /\ PublicCount(vpc) = 1 /\ PrivateCount(vpc) = 0
    /\ complianceErrs = <<>>

\* C3: for the default VPC in eu-west-1, checkCompliance returns exactly the
\* one violation "is Default VPC" and no subnet-count violation, whatever
\* the subnets are.
C3_DefaultVPCOnly ==
    (Checked /\ InRegion(vpc) /\ vpc.IsDefault) => complianceErrs = <<"is Default VPC">>

C3_Witness ==
    /\ Checked /\ InRegion(vpc) /\ vpc.IsDefault
    /\ PublicCount(vpc) = 2 /\ PrivateCount(vpc) = 4
    /\ complianceErrs = <<"is Default VPC">>

\* out is in within the elements that satisfy AccountID = id, in order:
\* a strictly increasing map of out's positions onto exactly those positions
IsAccountSubsequence(out, in, id) ==
    LET hits == {k \in DOMAIN in : in[k].AccountID = id}
    IN  /\ Len(out) = Cardinality(hits)
        /\ \E f \in [DOMAIN out -> DOMAIN in] :
              /\ \A a, b \in DOMAIN out : a < b => f[a] < f[b]
              /\ {f[a] : a \in DOMAIN out} = hits
              /\ \A a \in DOMAIN out : out[a] = in[f[a]]

\* C4: Filter by AccountID == X returns exactly the VPCs of account X, in
\* their original order, none dropped, duplicated or added; filtering that
\* result by X again returns it unchanged.
C4_FilterSubsequenceIdempotent ==
    /\ pc = "filtered" => IsAccountSubsequence(accountVPCs, vpcs, accountID)
    /\ pc = "refiltered" => accountVPCs = vpcs

C4_Witness ==
    /\ pc = "refiltered"
    /\ Len(accountVPCs) = 2
    /\ accountVPCs[1].VPCID = "vpc-1"
    /\ accountVPCs[2].VPCID = "vpc-3"
    /\ accountID = "111"

-----------------------------------------------------------------------------
(* Properties of a whole run of main (checked under Spec and FairSpec) *)

FailedKinds == {"failed", "reason", "blank"}
IgnoredKinds == {"ignoredHeader", "ignored"}

\* the Failed blocks of the output, and the ignored-region report
FailedLines == SelectSeq(stdout, LAMBDA l : l.kind \in FailedKinds)
IgnoredLines == SelectSeq(stdout, LAMBDA l : l.kind \in IgnoredKinds)

HasLine(kind, id) == \E k \in DOMAIN stdout : stdout[k].kind = kind /\ stdout[k].vpcId = id

\* the block of one VPC with violations errs, as the contract words it
ExpectedBlock(v, errs) ==
    <<[kind |-> "failed", vpcId |-> v.VPCID,
       text |-> "Failed: " \o v.VPCID \o " (" \o v.Meta.Origin.Region \o ")"]>>
    \o [k \in 1..Len(errs) |-> [kind |-> "reason", vpcId |-> v.VPCID, text |-> "\t" \o errs[k]]]
    \o <<[kind |-> "blank", vpcId |-> v.VPCID, text |-> ""]>>

\* one block per VPC of the inventory that belongs to account id and has
\* violations, in inventory order
RECURSIVE ExpectedBlocks(_, _)
ExpectedBlocks(vs, id) ==
    IF vs = <<>> THEN <<>>
    ELSE LET v == Head(vs)
             errs == checkCompliance(v)
         IN  (IF v.AccountID = id /\ errs # <<>> THEN ExpectedBlock(v, errs) ELSE <<>>)
             \o ExpectedBlocks(Tail(vs), id)

\* C5: once the loop over the account's VPCs is over, the Failed blocks
\* printed are exactly those of the account's VPCs with a non-empty
\* checkCompliance result, in order, one block each, each listing its
\* violations in the order checkCompliance returned them.
C5_FailedBlocksExact ==
    pc \in {"ignored", "done"} => FailedLines = ExpectedBlocks(vpcs, accountID)

C5_Witness ==
    /\ pc = "done"
    /\ Len(vpcs) = 2
    /\ vpcs[1].AccountID = accountID /\ checkCompliance(vpcs[1]) = <<>>
    /\ InRegion(vpcs[1])
    /\ vpcs[2].AccountID = accountID
    /\ FailedLines =
         <<[kind |-> "failed", vpcId |-> "vpc-2", text |-> "Failed: vpc-2 (eu-west-1)"],
           [kind |-> "reason", vpcId |-> "vpc-2",
            text |-> "\texpected 3 public subnets, found 4"],
           [kind |-> "reason", vpcId |-> "vpc-2",
            text |-> "\texpected 3 private subnets, found 2"],
           [kind |-> "blank", vpcId |-> "vpc-2", text |-> ""]>>

\* the ignored report over the account's VPCs outside eu-west-1
ExpectedIgnored(vs, id) ==
    LET ign == SelectSeq(vs, LAMBDA v : v.AccountID = id /\ v.Meta.Origin.Region # "eu-west-1")
    IN  IF ign = <<>> THEN <<>>
        ELSE <<[kind |-> "ignoredHeader", vpcId |-> "",
                text |-> "The following VPCs were ignored as are in non-standard regions:"]>>
             \o [k \in 1..Len(ign) |->
                   [kind |-> "ignored", vpcId |-> ign[k].VPCID,
                    text |-> "\t" \o ign[k].VPCID \o " (" \o ign[k].Meta.Origin.Region \o ")"]]

\* C6: in a run that completes, the ignored report lists exactly the
\* account's VPCs outside eu-west-1 (once each, in order, omitted when there
\* are none), comes after every Failed block, and no VPC listed in it has a
\* Failed block: each VPC of the account is either in eu-west-1 and judged
\* by the policy, or listed as ignored, never both and never neither.
C6_RegionExclusionsConsistent ==
    pc = "done" =>
        /\ IgnoredLines = ExpectedIgnored(vpcs, accountID)
        /\ \A a, b \in DOMAIN stdout :
              (stdout[a].kind \in FailedKinds /\ stdout[b].kind \in IgnoredKinds) => a < b
        /\ \A k \in DOMAIN vpcs :
              vpcs[k].AccountID = accountID =>
                 /\ InRegion(vpcs[k]) <=> ~HasLine("ignored", vpcs[k].VPCID)
                 /\ ~(HasLine("ignored", vpcs[k].VPCID) /\ HasLine("failed", vpcs[k].VPCID))
                 /\ (InRegion(vpcs[k]) /\ checkCompliance(vpcs[k]) # <<>>)
                       => HasLine("failed", vpcs[k].VPCID)

C6_Witness ==
    /\ pc = "done"
    /\ HasLine("failed", "vpc-1")
    /\ HasLine("ignored", "vpc-2")
    /\ vpcs[2].IsDefault
    /\ Len(IgnoredLines) = 2

\* C7: a transport, read or decode failure ends the process at once with a
\* non-zero status: nothing was filtered or evaluated, no Failed block and
\* no ignored report was printed, and no step of main runs afterwards.
C7_FailureIsFatal ==
    /\ pc = "fatal" =>
          /\ exitStatus = <<1>>
          /\ FailedLines = <<>> /\ IgnoredLines = <<>>
          /\ vpcs = <<>> /\ accountVPCs = <<>> /\ nonEuWest1 = <<>>
          /\ vpc = ZeroVPC /\ complianceErrs = <<>>
          /\ ~ENABLED Next
    /\ stderr # <<>> => pc = "fatal"
    /\ data.kind = "malformed" => pc \in {"unmarshal", "fatal"}

C7_Witness ==
    /\ pc = "fatal"
    /\ data.kind = "malformed"
    /\ exitStatus = <<1>>
    /\ stderr = <<"unable to unmarshal: invalid character 'o' in literal null">>

\* C8: with the flag omitted the warning is printed, the run goes on to
\* completion, and the account filter matches no VPC of any decodable
\* inventory, so nothing but the warning is printed.
C8_EmptyAccountMatchesNothing ==
    (accountID = "" /\ pc = "done") =>
        /\ stdout = <<[kind |-> "warning", vpcId |-> "",
                       text |-> "Missing required argument: accountID"]>>
        /\ accountVPCs = <<>>

\* C9: once fetch, read and decode have succeeded the run reaches normal
\* completion with exit status 0, whatever was reported; a non-zero exit
\* status only follows a fetch, read or decode failure.
C9_ViolationsNeverAffectExit ==
    /\ [](pc = "filter" => <>(pc = "done" /\ exitStatus = <<0>>))
    /\ [](pc = "done" => exitStatus = <<0>>)
    /\ []((exitStatus # <<>> /\ exitStatus # <<0>>) => (pc = "fatal" /\ stderr # <<>>))

C9_Witness ==
    /\ pc = "done"
    /\ exitStatus = <<0>>
    /\ HasLine("failed", "vpc-2")
    /\ HasLine("ignored", "vpc-1")
    /\ HasLine("ignoredHeader", "")

\* C10 as stated: when the process ends on the fatal path nothing has been
\* written to standard output, whatever the flag.
C10_NoOutputBeforeFatal ==
    pc = "fatal" => stdout = <<>>

\* C10 amended: when the process ends on the fatal path, standard output
\* holds nothing if the flag was given and exactly the missing-argument
\* warning if it was omitted.
C10_OnlyWarningBeforeFatal ==
    pc = "fatal" =>
        /\ accountID # "" => stdout = <<>>
        /\ accountID = "" =>
              stdout = <<[kind |-> "warning", vpcId |-> "",
                          text |-> "Missing required argument: accountID"]>>

C10_Witness ==
    /\ pc = "fatal"
    /\ accountID = ""
    /\ Len(stdout) = 1
    /\ resp = [kind |-> "none"]

====
